---------------------------- MODULE Spec2Model ----------------------------
(* A model of the text annotation prototype (src/main.py).                *)
(*                                                                         *)
(* A Python str is modelled as a sequence of one-character strings, a      *)
(* Python list as a sequence, a dict as a record.  One run of the script   *)
(* main() - Streamlit runs it from top to bottom after every user          *)
(* interaction - is one atomic action of the session specification Spec.   *)
(* The three pure functions are operators; each also has a specification   *)
(* of its own whose initial states draw its arguments from bounded sets.   *)
EXTENDS Integers, Sequences, FiniteSets, TLC

VARIABLES
    pc,             \* which specification / step the behaviour is in
    uploaded,       \* uploaded_file is not None                (main.py:94-96)
    text,           \* the decoded document                     (main.py:98)
    has_key,        \* 'annotations' in st.session_state        (main.py:118)
    annotations,    \* st.session_state['annotations']          (main.py:119-121)
    page_num,       \* the value of the "Select Page" widget    (main.py:107)
    msg,            \* what st.success / st.error showed in the run (main.py:142-144)
    page_size,      \* argument indices_per_page of paginate_text
    result,         \* what the pure function under check returned
    given           \* the annotation list as it was passed in (history)

vars == <<pc, uploaded, text, has_key, annotations, page_num, msg,
          page_size, result, given>>

-----------------------------------------------------------------------------
(* Bounds *)

\* longest text given to paginate_text
MaxTextLen == 5
\* largest |indices_per_page| given to paginate_text
MaxPageSize == 5
\* most annotations a session holds
MaxSessionAnn == 2
\* longest text given to get_annotated_text
MaxLen == 3
\* most annotations given to get_annotated_text
MaxAnn == 3
\* longest text given to save_annotations
MaxSaveLen == 3
\* most annotations given to save_annotations
MaxSaveAnn == 2

\* indices_per_page = 25
indices_per_page == 25

-----------------------------------------------------------------------------
(* Python primitives *)

Min(a, b) == IF a < b THEN a ELSE b
Max(a, b) == IF a > b THEN a ELSE b

\* Where a slice bound i lands in a sequence of length n: a negative bound
\* counts from the end, and every bound is clamped into 0..n.
SliceBound(i, n) == IF i < 0 THEN Max(i + n, 0) ELSE Min(i, n)

\* s[lo:hi]
PySlice(s, lo, hi) ==
    LET a == SliceBound(lo, Len(s))
        b == SliceBound(hi, Len(s))
    IN  IF a >= b THEN <<>> ELSE SubSeq(s, a + 1, b)

\* s[lo:]
PySliceFrom(s, lo) == PySlice(s, lo, Len(s))

\* list(range(start, stop, step)) for step /= 0
RECURSIVE PyRange(_, _, _)
PyRange(start, stop, step) ==
    IF (step > 0 /\ start < stop) \/ (step < 0 /\ start > stop)
    THEN <<start>> \o PyRange(start + step, stop, step)
    ELSE <<>>

-----------------------------------------------------------------------------
(* paginate_text *)

NoError == "none"
ValueError == "ValueError"

\* paginate_text with every page one character short
paginate_text_short_pages(t, per_page) ==
    IF per_page = 0
    THEN [error |-> ValueError, pages |-> <<>>]
    ELSE LET starts == PyRange(0, Len(t), per_page)
         IN  [error |-> NoError,
              pages |-> [k \in 1..Len(starts) |->
                            PySlice(t, starts[k], starts[k] + per_page - 1)]]

\* paginate_text(text, indices_per_page): range() raises ValueError for a
\* step of zero; otherwise one slice per element of the range.
paginate_text(t, per_page) ==
    IF per_page = 0
    THEN [error |-> ValueError, pages |-> <<>>]
    ELSE LET starts == PyRange(0, Len(t), per_page)
         IN  [error |-> NoError,
              pages |-> [k \in 1..Len(starts) |->
                            PySlice(t, starts[k], starts[k] + per_page)]]

-----------------------------------------------------------------------------
(* Inputs *)

Alphabet == {"a", "b"}

\* every text over Alphabet of length at most n
TextsUpTo(n) == UNION {[1..k -> Alphabet] : k \in 0..n}

PageSizes == (0 - MaxPageSize)..MaxPageSize

\* what the variables a specification does not use hold
Idle ==
    /\ uploaded = FALSE
    /\ has_key = FALSE
    /\ page_num = 1
    /\ msg = ""
    /\ given = <<>>

-----------------------------------------------------------------------------
(* SpecPaginate: paginate_text applied to every bounded text and page size *)

InitPaginate ==
    /\ pc = "paginate"
    /\ text \in TextsUpTo(MaxTextLen)
    /\ page_size \in PageSizes
    /\ annotations = <<>>
    /\ result = <<>>
    /\ Idle

CallPaginate ==
    /\ pc = "paginate"
    /\ pc' = "paginated"
    /\ result' = paginate_text(text, page_size)
    /\ UNCHANGED <<uploaded, text, has_key, annotations, page_num, msg,
                   page_size, given>>

NextPaginate == CallPaginate

SpecPaginate == InitPaginate /\ [][NextPaginate]_vars

\* the in-order concatenation of a sequence of sequences
RECURSIVE Flatten(_)
Flatten(ss) == IF ss = <<>> THEN <<>> ELSE Head(ss) \o Flatten(Tail(ss))

\* C6: for a page size P > 0 paginate_text returns normally; the pages
\* concatenated in order are the text, every page but the last holds exactly
\* P characters, the last page holds between 1 and P, and there are
\* ceil(N / P) pages (none for the empty text).
C6_PaginationPartitionsText ==
    (pc = "paginated" /\ page_size > 0) =>
        LET ps == result.pages
            n  == Len(text)
        IN  /\ result.error = NoError
            /\ Flatten(ps) = text
            /\ \A k \in 1..(Len(ps) - 1) : Len(ps[k]) = page_size
            /\ Len(ps) > 0 => Len(ps[Len(ps)]) \in 1..page_size
            /\ Len(ps) = (n + page_size - 1) \div page_size
            /\ Len(ps) * page_size >= n
            /\ n = 0 => ps = <<>>

\* C6 witness: a text split into two full pages and a shorter last page
C6_Witness ==
    /\ pc = "paginated"
    /\ page_size = 2
    /\ text = <<"a", "b", "b", "a", "b">>
    /\ result.pages = << <<"a", "b">>, <<"b", "a">>, <<"b">> >>

\* C7: every page size <= 0 is rejected with an error, for every text, and
\* no page sequence is returned for it.
C7_NonPositivePageSizeRejected ==
    (pc = "paginated" /\ page_size <= 0) => result.error # NoError

-----------------------------------------------------------------------------
(* get_annotated_text *)

\* the insertion that puts an element before those of equal start_pos
InsertByStart_before_equal(sorted_list, a) ==
    LET before == {k \in 1..Len(sorted_list) :
                      sorted_list[k].start_pos < a.start_pos}
        n == Cardinality(before)
    IN  SubSeq(sorted_list, 1, n) \o <<a>> \o
        SubSeq(sorted_list, n + 1, Len(sorted_list))

\* a sorted list with one more element put in: after every element whose
\* start_pos is not greater, so that equal keys keep their order
InsertByStart(sorted_list, a) ==
    LET before == {k \in 1..Len(sorted_list) :
                      sorted_list[k].start_pos <= a.start_pos}
        n == Cardinality(before)
    IN  SubSeq(sorted_list, 1, n) \o <<a>> \o
        SubSeq(sorted_list, n + 1, Len(sorted_list))

\* sorted(annotations, key=lambda x: x['start_pos']): a new list, stable
RECURSIVE SortedByStart(_)
SortedByStart(anns) ==
    IF anns = <<>> THEN <<>>
    ELSE InsertByStart(SortedByStart(SubSeq(anns, 1, Len(anns) - 1)),
                       anns[Len(anns)])

\* an unannotated fragment: a plain string of the list
Plain(chars) == [kind |-> "plain", text |-> chars]

\* an annotated fragment: the tuple (text, label, "#8ef")
Highlight(chars, label) ==
    [kind |-> "highlight", text |-> chars, label |-> label, color |-> "#8ef"]

\* the loop body that takes a gap of one character for no gap
LoopBody_skips_short_gap(t, last_end, annotation) ==
    (IF annotation.start_pos > last_end + 1
     THEN <<[kind |-> "plain",
             text |-> PySlice(t, last_end, annotation.start_pos)]>>
     ELSE <<>>)
    \o <<[kind |-> "highlight",
          text |-> PySlice(t, annotation.start_pos, annotation.end_pos),
          label |-> annotation.label, color |-> "#8ef"]>>

\* one pass of the for loop: the fragments appended for one annotation
LoopBody(t, last_end, annotation) ==
    (IF annotation.start_pos > last_end
     THEN <<Plain(PySlice(t, last_end, annotation.start_pos))>>
     ELSE <<>>)
    \o <<Highlight(PySlice(t, annotation.start_pos, annotation.end_pos),
                   annotation.label)>>

\* the for loop from its k-th annotation on, with last_end as it stands;
\* ends with the remaining unannotated text
RECURSIVE Sweep(_, _, _, _)
Sweep(t, sorted_list, k, last_end) ==
    IF k > Len(sorted_list)
    THEN IF last_end < Len(t) THEN <<Plain(PySliceFrom(t, last_end))>> ELSE <<>>
    ELSE LoopBody(t, last_end, sorted_list[k])
         \o Sweep(t, sorted_list, k + 1, sorted_list[k].end_pos)

get_annotated_text(t, anns) == Sweep(t, SortedByStart(anns), 1, 0)

\* the list after a render that sorts it in place (annotations.sort(...))
ListAfterRender_sorted_in_place(anns) == SortedByStart(anns)

\* the list passed to get_annotated_text, after the call: sorted() builds a
\* new list and leaves its argument as it was
ListAfterRender(anns) == anns

-----------------------------------------------------------------------------
(* main: one run of the script per user interaction *)

Success == "Annotation Added!"
Invalid == "Invalid annotation positions."

\* the check with start_pos = end_pos let through
ValidPositions_allows_empty(start_pos, end_pos, t) ==
    0 <= start_pos /\ start_pos <= end_pos /\ end_pos <= Len(t)

\* if 0 <= start_pos < end_pos <= len(text)
ValidPositions(start_pos, end_pos, t) ==
    0 <= start_pos /\ start_pos < end_pos /\ end_pos <= Len(t)

\* the dict appended by "Add Annotation"
NewAnnotation(start_pos, end_pos, label, t) ==
    [start_pos |-> start_pos, end_pos |-> end_pos, label |-> label,
     text_fragment |-> PySlice(t, start_pos, end_pos)]

\* num_pages = len(pages)
num_pages(t) == Len(paginate_text(t, indices_per_page).pages)

\* The run gets past the page selector only when there is a page to show:
\* with no page, pages[page_num - 1] raises and the run ends there.
PageShown(t) == num_pages(t) >= 1

\* start_index = (page_num - 1) * indices_per_page
start_index(p) == (p - 1) * indices_per_page

\* current_page_text = pages[page_num - 1]
current_page_text(t, p) == paginate_text(t, indices_per_page).pages[p]

\* the run with a span that is already in the list not appended again
AnnotationsAfterRun_no_duplicates(t, click, start_pos, end_pos, label) ==
    LET loaded == IF has_key THEN annotations ELSE <<>>
        known  == \E k \in 1..Len(loaded) :
                      /\ loaded[k].start_pos = start_pos
                      /\ loaded[k].end_pos = end_pos
    IN  IF click /\ ValidPositions(start_pos, end_pos, t) /\ ~known
        THEN Append(loaded, NewAnnotation(start_pos, end_pos, label, t))
        ELSE loaded

\* st.session_state['annotations'] when the run ends, for the document t;
\* click says whether "Add Annotation" was pressed, with these inputs
AnnotationsAfterRun(t, click, start_pos, end_pos, label) ==
    LET loaded   == IF has_key THEN annotations ELSE <<>>
        previewed == ListAfterRender(loaded)
        added    == IF click /\ ValidPositions(start_pos, end_pos, t)
                    THEN Append(previewed,
                                NewAnnotation(start_pos, end_pos, label, t))
                    ELSE previewed
    IN  IF added # <<>> THEN ListAfterRender(added) ELSE added

\* the message of the run
MessageOfRun(t, click, start_pos, end_pos) ==
    IF ~click THEN ""
    ELSE IF ValidPositions(start_pos, end_pos, t) THEN Success ELSE Invalid

\* the body of main() under "if uploaded_file is not None", for document t
RunScript(t, click, start_pos, end_pos, label) ==
    IF PageShown(t)
    THEN /\ has_key' = TRUE
         /\ annotations' = AnnotationsAfterRun(t, click, start_pos, end_pos, label)
         /\ msg' = MessageOfRun(t, click, start_pos, end_pos)
    ELSE /\ msg' = ""
         /\ UNCHANGED <<has_key, annotations>>

\* "### Current Annotations": what the run shows when the set is not empty
CurrentAnnotationsView == get_annotated_text(text, annotations)

-----------------------------------------------------------------------------
(* Spec: a session *)

LongDoc ==
    <<"a", "b", "c", "d", "e", "f", "g", "h", "i", "j", "k", "l", "m",
      "n", "o", "p", "q", "r", "s", "t", "u", "v", "w", "x", "y", "z">>

\* the documents a user uploads
Docs == { <<>>, <<"a">>, <<"b", "a">>, LongDoc }

\* the default of the "Label" input, and another label
PERSON == <<"P", "E", "R", "S", "O", "N">>
LOCATION == <<"L", "O", "C", "A", "T", "I", "O", "N">>

Labels == {PERSON, LOCATION}

\* The positions entered for a document of length n: around both ends.  The
\* two number inputs are declared with min_value=0 and max_value=len(text);
\* -1 and n + 1 lie outside that range and are kept so that every branch of
\* the handler's own check (line 134) is taken.
PositionsFor(n) == {-1, 0, 1, n, n + 1}

Init ==
    /\ pc = "session"
    /\ uploaded = FALSE
    /\ text = <<>>
    /\ has_key = FALSE
    /\ annotations = <<>>
    /\ page_num = 1
    /\ msg = ""
    /\ page_size = indices_per_page
    /\ result = <<>>
    /\ given = <<>>

\* the user uploads a document (the first, or another one in its place)
Upload(d) ==
    /\ pc = "session"
    /\ ~(uploaded /\ d = text)
    /\ uploaded' = TRUE
    /\ text' = d
    /\ page_num' = IF uploaded /\ num_pages(d) = num_pages(text)
                   THEN page_num ELSE 1
    /\ RunScript(d, FALSE, 0, 1, PERSON)
    /\ UNCHANGED <<pc, page_size, result, given>>

\* the user removes the uploaded file: nothing below line 96 runs
RemoveFile ==
    /\ pc = "session"
    /\ uploaded
    /\ uploaded' = FALSE
    /\ text' = <<>>
    /\ page_num' = 1
    /\ msg' = ""
    /\ UNCHANGED <<pc, has_key, annotations, page_size, result, given>>

\* the user selects another page
SelectPage(p) ==
    /\ pc = "session"
    /\ uploaded /\ PageShown(text)
    /\ p \in 1..num_pages(text)
    /\ p # page_num
    /\ page_num' = p
    /\ RunScript(text, FALSE, 0, 1, PERSON)
    /\ UNCHANGED <<pc, uploaded, text, page_size, result, given>>

\* the user enters positions and a label and presses "Add Annotation"
AddAnnotation(start_pos, end_pos, label) ==
    /\ pc = "session"
    /\ UNCHANGED <<pc, uploaded, text, page_num, page_size, result, given>>
    /\ uploaded /\ PageShown(text)
    /\ Len(annotations) < MaxSessionAnn
    /\ RunScript(text, TRUE, start_pos, end_pos, label)

Next ==
    \/ \E d \in Docs : Upload(d)
    \/ RemoveFile
    \/ \E p \in 1..2 : SelectPage(p)
    \/ \E s \in PositionsFor(Len(text)), e \in PositionsFor(Len(text)),
          l \in Labels : AddAnnotation(s, e, l)

Spec == Init /\ [][Next]_vars

-----------------------------------------------------------------------------
(* The session's claims *)

\* C1: while a document is loaded and shown, every annotation of the
\* session's set satisfies 0 <= start_pos < end_pos <= N, N the length of
\* that document.
C1_PositionsWithinLoadedDocument ==
    (pc = "session" /\ uploaded /\ PageShown(text)) =>
        \A k \in 1..Len(annotations) :
            /\ 0 <= annotations[k].start_pos
            /\ annotations[k].start_pos < annotations[k].end_pos
            /\ annotations[k].end_pos <= Len(text)

\* C2: while a document is loaded and shown, the text_fragment of every
\* annotation of the set is the slice text[start_pos:end_pos] of that
\* document.
C2_FragmentIsSliceOfLoadedDocument ==
    (pc = "session" /\ uploaded /\ PageShown(text)) =>
        \A k \in 1..Len(annotations) :
            annotations[k].text_fragment =
                PySlice(text, annotations[k].start_pos, annotations[k].end_pos)

\* C3: right after any upload of a document (the run that shows it) the
\* session's annotation set is empty: nothing made for an earlier document
\* is rendered or serialized with the new one.
C3_UploadStartsWithEmptySet ==
    [][(\E d \in Docs : PageShown(d) /\ Upload(d)) => annotations' = <<>>]_vars

\* the positions are not 0 <= start_pos < end_pos <= N
OutOfOrderOrRange(start_pos, end_pos, n) ==
    \/ start_pos >= end_pos
    \/ start_pos < 0 \/ start_pos > n
    \/ end_pos < 0 \/ end_pos > n

\* C4: an Add Annotation request with start >= end, or with start or end
\* outside [0, N], shows "Invalid annotation positions." and leaves the set
\* as it was.
C4_InvalidAddIsNoOp ==
    [][\A s \in PositionsFor(Len(text)), e \in PositionsFor(Len(text)),
          l \in Labels :
            (OutOfOrderOrRange(s, e, Len(text)) /\ AddAnnotation(s, e, l))
                => (annotations' = annotations /\ msg' = Invalid)]_vars

\* C4 witness: a request was refused while the set held an annotation
C4_Witness ==
    /\ pc = "session"
    /\ msg = Invalid
    /\ Len(annotations) >= 1

\* the record a valid request for text[start_pos:end_pos] must add
ExpectedRecord(start_pos, end_pos, label) ==
    [start_pos |-> start_pos, end_pos |-> end_pos, label |-> label,
     text_fragment |-> [i \in 1..(end_pos - start_pos) |-> text[start_pos + i]]]

\* C5: a valid Add Annotation puts exactly one record {start_pos, end_pos,
\* label, text[start_pos:end_pos]} at the end of the set, also when the span
\* is already there or overlaps one; every other step leaves the set as it
\* is; so no step shortens the set or changes a record of it.
C5_AppendOnly ==
    [][/\ \A s \in PositionsFor(Len(text)), e \in PositionsFor(Len(text)),
             l \in Labels :
               (~OutOfOrderOrRange(s, e, Len(text)) /\ AddAnnotation(s, e, l))
                   => annotations' = Append(annotations, ExpectedRecord(s, e, l))
       /\ (~\E s \in PositionsFor(Len(text)), e \in PositionsFor(Len(text)),
              l \in Labels :
                ~OutOfOrderOrRange(s, e, Len(text)) /\ AddAnnotation(s, e, l))
             => annotations' = annotations
       /\ Len(annotations') >= Len(annotations)
       /\ \A k \in 1..Len(annotations) : annotations'[k] = annotations[k]
      ]_vars

\* C5 witness: a span was added a second time, after itself
C5_Witness ==
    /\ pc = "session"
    /\ msg = Success
    /\ Len(annotations) = 2
    /\ annotations[1].start_pos = annotations[2].start_pos
    /\ annotations[1].end_pos = annotations[2].end_pos

-----------------------------------------------------------------------------
(* SpecRender: get_annotated_text applied to every bounded text and every *)
(* list of annotations valid for it                                        *)

\* a text of pairwise different characters: a slice of it tells its place
Letters == <<"a", "b", "c", "d", "e", "f", "g", "h", "i", "j">>

RenderTexts == {SubSeq(Letters, 1, n) : n \in 0..MaxLen}

RenderLabels == { <<"A">>, <<"B">> }

\* the records "Add Annotation" can have appended for the document t
ValidAnnotations(t, labels) ==
    {NewAnnotation(span[1], span[2], l, t) :
        span \in {q \in (0..Len(t)) \X (0..Len(t)) :
                     ValidPositions(q[1], q[2], t)},
        l \in labels}

\* every list of at most n elements of the set S
ListsUpTo(S, n) == UNION {[1..k -> S] : k \in 0..n}

\* the overlapping spans [0,5,A], [3,8,B] on "abcdefghij"
PinnedAnnotations ==
    <<NewAnnotation(0, 5, <<"A">>, Letters),
      NewAnnotation(3, 8, <<"B">>, Letters)>>

InitRender ==
    /\ pc = "render"
    /\ \/ /\ text \in RenderTexts
          /\ annotations \in ListsUpTo(ValidAnnotations(text, RenderLabels), MaxAnn)
       \/ /\ text = Letters
          /\ annotations = PinnedAnnotations
    /\ given = annotations
    /\ uploaded = FALSE
    /\ has_key = FALSE
    /\ page_num = 1
    /\ msg = ""
    /\ page_size = indices_per_page
    /\ result = <<>>

CallRender ==
    /\ pc = "render"
    /\ pc' = "rendered"
    /\ result' = get_annotated_text(text, annotations)
    /\ annotations' = ListAfterRender(annotations)
    /\ UNCHANGED <<uploaded, text, has_key, page_num, msg, page_size, given>>

NextRender == CallRender

SpecRender == InitRender /\ [][NextRender]_vars

\* text[lo:hi] for 0 <= lo <= hi <= N, character by character
Segment(lo, hi) == [i \in 1..(hi - lo) |-> text[lo + i]]

\* where the k-th given annotation stands when the annotations are put in
\* ascending start order, equal starts in the order given
Rank(anns, k) ==
    1 + Cardinality({j \in 1..Len(anns) :
            \/ anns[j].start_pos < anns[k].start_pos
            \/ anns[j].start_pos = anns[k].start_pos /\ j < k})

InStartOrder(anns) ==
    [r \in 1..Len(anns) |-> anns[CHOOSE k \in 1..Len(anns) : Rank(anns, k) = r]]

\* the fragments of the reference sweep over the given annotations
ReferenceSweep ==
    LET s == InStartOrder(given)
        n == Len(s)
        cursor(k) == IF k = 1 THEN 0 ELSE s[k - 1].end_pos
        piece(k) ==
            (IF s[k].start_pos > cursor(k)
             THEN <<[kind |-> "plain", text |-> Segment(cursor(k), s[k].start_pos)]>>
             ELSE <<>>)
            \o <<[kind |-> "highlight",
                  text |-> Segment(s[k].start_pos, s[k].end_pos),
                  label |-> s[k].label, color |-> "#8ef"]>>
        rest == IF cursor(n + 1) < Len(text)
                THEN <<[kind |-> "plain", text |-> Segment(cursor(n + 1), Len(text))]>>
                ELSE <<>>
    IN  Flatten([k \in 1..n |-> piece(k)]) \o rest

\* C8: get_annotated_text returns the fragments of the reference sweep:
\* annotations in ascending start order, ties in insertion order; a plain
\* fragment text[cursor:start] only when start > cursor, then always the
\* highlight text[start:end] with its label, cursor = end; a last plain
\* fragment text[cursor:N] only when cursor < N.  So there is one highlight
\* per annotation, and "abcdefghij" with [0,5,A], [3,8,B] gives
\* Highlight(abcde,A), Highlight(defgh,B), Plain(ij).
C8_RenderIsReferenceSweep ==
    (pc = "rendered") =>
        /\ result = ReferenceSweep
        /\ Cardinality({k \in 1..Len(result) : result[k].kind = "highlight"})
              = Len(given)
        /\ (text = Letters /\ given = PinnedAnnotations) =>
              result = << [kind |-> "highlight", label |-> <<"A">>, color |-> "#8ef",
                           text |-> <<"a", "b", "c", "d", "e">>],
                          [kind |-> "highlight", label |-> <<"B">>, color |-> "#8ef",
                           text |-> <<"d", "e", "f", "g", "h">>],
                          [kind |-> "plain", text |-> <<"i", "j">>] >>

\* C8 witness: the pinned overlapping example has been rendered
C8_Witness ==
    /\ pc = "rendered"
    /\ text = Letters
    /\ given = PinnedAnnotations
    /\ Len(result) = 3

\* the given spans are pairwise disjoint
PairwiseDisjoint(anns) ==
    \A i \in 1..Len(anns), j \in 1..Len(anns) :
        i # j => \/ anns[i].end_pos <= anns[j].start_pos
                 \/ anns[j].end_pos <= anns[i].start_pos

\* the text of every fragment, in order
FragmentTexts == [k \in 1..Len(result) |-> result[k].text]

\* C9: every character position of the text is covered by an emitted
\* fragment (the characters of the text are pairwise different, so a
\* position is covered when its character is in a fragment); with pairwise
\* disjoint spans the fragments' texts concatenated are the text; with no
\* annotation the output is the one plain fragment of the whole text, and
\* nothing for the empty text.
C9_RenderCoversText ==
    (pc = "rendered") =>
        /\ \A p \in 1..Len(text) :
              \E k \in 1..Len(result) :
                  \E i \in 1..Len(result[k].text) : result[k].text[i] = text[p]
        /\ PairwiseDisjoint(given) => Flatten(FragmentTexts) = text
        /\ given = <<>> =>
              result = IF text = <<>> THEN <<>>
                       ELSE <<[kind |-> "plain", text |-> text]>>

\* C9 witness: two disjoint spans given out of order, one character between
C9_Witness ==
    /\ pc = "rendered"
    /\ text = <<"a", "b", "c">>
    /\ Len(given) = 2
    /\ given[1].start_pos = 2 /\ given[1].end_pos = 3
    /\ given[2].start_pos = 0 /\ given[2].end_pos = 1
    /\ Len(result) = 3

-----------------------------------------------------------------------------
(* save_annotations *)

\* Python values as json.dumps sees them
PyStr(chars) == [type |-> "str", val |-> chars]
PyInt(n)     == [type |-> "int", val |-> n]
PyList(xs)   == [type |-> "list", items |-> xs]
\* a dict: its keys and values in insertion order
PyDict(kvs)  == [type |-> "dict", items |-> kvs]
Pair(k, v)   == [key |-> k, value |-> v]

KeyText         == <<"t", "e", "x", "t">>
KeyAnnotations  == <<"a", "n", "n", "o", "t", "a", "t", "i", "o", "n", "s">>
KeyStartPos     == <<"s", "t", "a", "r", "t", "_", "p", "o", "s">>
KeyEndPos       == <<"e", "n", "d", "_", "p", "o", "s">>
KeyLabel        == <<"l", "a", "b", "e", "l">>
KeyTextFragment == <<"t", "e", "x", "t", "_", "f", "r", "a", "g", "m", "e", "n", "t">>

\* one annotation dict, keys in the order "Add Annotation" wrote them
AnnotationDict(a) ==
    PyDict(<<Pair(KeyStartPos, PyInt(a.start_pos)),
             Pair(KeyEndPos, PyInt(a.end_pos)),
             Pair(KeyLabel, PyStr(a.label)),
             Pair(KeyTextFragment, PyStr(a.text_fragment))>>)

\* annotated_data = {"text": text, "annotations": annotations}
annotated_data(t, anns) ==
    PyDict(<<Pair(KeyText, PyStr(t)),
             Pair(KeyAnnotations,
                  PyList([k \in 1..Len(anns) |-> AnnotationDict(anns[k])]))>>)

DigitChars == <<"0", "1", "2", "3", "4", "5", "6", "7", "8", "9">>

\* the decimal digits of n >= 0
RECURSIVE Digits(_)
Digits(n) ==
    IF n < 10 THEN <<DigitChars[n + 1]>>
    ELSE Digits(n \div 10) \o <<DigitChars[(n % 10) + 1]>>

\* json.dumps of an int
EncodeInt(n) == IF n < 0 THEN <<"-">> \o Digits(0 - n) ELSE Digits(n)

\* json.dumps of one character of a str
EncodeChar(c) ==
    CASE c = "\"" -> <<"\\", "\"">>
      [] c = "\\" -> <<"\\", "\\">>
      [] c = "\n" -> <<"\\", "n">>
      [] OTHER    -> <<c>>

\* json.dumps of a str
EncodeStr(chars) ==
    <<"\"">> \o Flatten([k \in 1..Len(chars) |-> EncodeChar(chars[k])]) \o <<"\"">>

\* with indent=4: a line break, then four spaces per nesting level
NewlineIndent(level) == <<"\n">> \o [k \in 1..level |-> "    "]

\* json.dumps(v, indent=4), v nested level deep
RECURSIVE Dump(_, _)
RECURSIVE DumpItems(_, _)
RECURSIVE DumpPairs(_, _)
Dump(v, level) ==
    CASE v.type = "str"  -> EncodeStr(v.val)
      [] v.type = "int"  -> EncodeInt(v.val)
      [] v.type = "list" ->
            IF v.items = <<>> THEN <<"[", "]">>
            ELSE <<"[">> \o NewlineIndent(level + 1)
                 \o DumpItems(v.items, level + 1)
                 \o NewlineIndent(level) \o <<"]">>
      [] v.type = "dict" ->
            IF v.items = <<>> THEN <<"{", "}">>
            ELSE <<"{">> \o NewlineIndent(level + 1)
                 \o DumpPairs(v.items, level + 1)
                 \o NewlineIndent(level) \o <<"}">>

DumpItems(items, level) ==
    IF Len(items) = 1 THEN Dump(items[1], level)
    ELSE Dump(items[1], level) \o <<",">> \o NewlineIndent(level)
         \o DumpItems(Tail(items), level)

DumpPairs(kvs, level) ==
    LET one == EncodeStr(kvs[1].key) \o <<":", " ">> \o Dump(kvs[1].value, level)
    IN  IF Len(kvs) = 1 THEN one
        ELSE one \o <<",">> \o NewlineIndent(level) \o DumpPairs(Tail(kvs), level)

\* json_data = json.dumps(annotated_data, indent=4)
save_annotations(t, anns) == Dump(annotated_data(t, anns), 0)

-----------------------------------------------------------------------------
(* SpecSave: the set is rendered, then save_annotations is applied to it  *)

\* pairwise different characters, those json.dumps escapes among them
SaveLetters == <<"a", "\"", "\\", "\n", "b", "c", "d", "e", "f", "g">>

SaveTexts == {SubSeq(SaveLetters, 1, n) : n \in 0..MaxSaveLen}

SaveLabels == { <<"A">>, <<"\"", "B", "\\">> }

InitSave ==
    /\ pc = "save"
    /\ text \in SaveTexts
    /\ annotations \in ListsUpTo(ValidAnnotations(text, SaveLabels), MaxSaveAnn)
    /\ given = annotations
    /\ uploaded = FALSE
    /\ has_key = FALSE
    /\ page_num = 1
    /\ msg = ""
    /\ page_size = indices_per_page
    /\ result = <<>>

\* annotated_text_list = get_annotated_text(text, annotations)
RenderFirst ==
    /\ pc = "save"
    /\ pc' = "shown"
    /\ result' = get_annotated_text(text, annotations)
    /\ annotations' = ListAfterRender(annotations)
    /\ UNCHANGED <<uploaded, text, has_key, page_num, msg, page_size, given>>

\* json_data = save_annotations(text, annotations)
CallSave ==
    /\ pc = "shown"
    /\ pc' = "saved"
    /\ result' = save_annotations(text, annotations)
    /\ UNCHANGED <<uploaded, text, has_key, annotations, page_num, msg,
                   page_size, given>>

NextSave == RenderFirst \/ CallSave

SpecSave == InitSave /\ [][NextSave]_vars

-----------------------------------------------------------------------------
(* Reading JSON back (json.loads), to state the round trip *)

Whitespace == {"\n", " ", "    "}
DigitSet == {DigitChars[k] : k \in 1..Len(DigitChars)}
DigitValue(c) == (CHOOSE k \in 1..Len(DigitChars) : DigitChars[k] = c) - 1

\* the character an escape \c stands for
Unescape(c) == IF c = "n" THEN "\n" ELSE c

\* the first place at or after i that holds no whitespace
RECURSIVE SkipWhitespace(_, _)
SkipWhitespace(s, i) ==
    IF i <= Len(s) /\ s[i] \in Whitespace THEN SkipWhitespace(s, i + 1) ELSE i

\* the characters of a string from place i, just after its opening quote
RECURSIVE ParseChars(_, _, _)
ParseChars(s, i, acc) ==
    IF s[i] = "\"" THEN [val |-> acc, next |-> i + 1]
    ELSE IF s[i] = "\\" THEN ParseChars(s, i + 2, Append(acc, Unescape(s[i + 1])))
    ELSE ParseChars(s, i + 1, Append(acc, s[i]))

\* the number whose digits start at place i
RECURSIVE ParseDigits(_, _, _)
ParseDigits(s, i, acc) ==
    IF i <= Len(s) /\ s[i] \in DigitSet
    THEN ParseDigits(s, i + 1, acc * 10 + DigitValue(s[i]))
    ELSE [val |-> acc, next |-> i]

\* the value that starts at place i, and the place after it
RECURSIVE ParseValue(_, _)
RECURSIVE ParseItems(_, _, _)
RECURSIVE ParsePairs(_, _, _)
ParseValue(s, i) ==
    CASE s[i] = "\"" ->
            LET r == ParseChars(s, i + 1, <<>>)
            IN  [val |-> PyStr(r.val), next |-> r.next]
      [] s[i] = "-" ->
            LET r == ParseDigits(s, i + 1, 0)
            IN  [val |-> PyInt(0 - r.val), next |-> r.next]
      [] s[i] \in DigitSet ->
            LET r == ParseDigits(s, i, 0)
            IN  [val |-> PyInt(r.val), next |-> r.next]
      [] s[i] = "[" ->
            LET j == SkipWhitespace(s, i + 1)
            IN  IF s[j] = "]" THEN [val |-> PyList(<<>>), next |-> j + 1]
                ELSE LET r == ParseItems(s, j, <<>>)
                     IN  [val |-> PyList(r.val), next |-> r.next]
      [] s[i] = "{" ->
            LET j == SkipWhitespace(s, i + 1)
            IN  IF s[j] = "}" THEN [val |-> PyDict(<<>>), next |-> j + 1]
                ELSE LET r == ParsePairs(s, j, <<>>)
                     IN  [val |-> PyDict(r.val), next |-> r.next]

ParseItems(s, i, acc) ==
    LET item == ParseValue(s, i)
        j    == SkipWhitespace(s, item.next)
        got  == Append(acc, item.val)
    IN  IF s[j] = "," THEN ParseItems(s, SkipWhitespace(s, j + 1), got)
        ELSE [val |-> got, next |-> j + 1]

ParsePairs(s, i, acc) ==
    LET k     == ParseChars(s, i + 1, <<>>)
        colon == SkipWhitespace(s, k.next)
        v     == ParseValue(s, SkipWhitespace(s, colon + 1))
        j     == SkipWhitespace(s, v.next)
        got   == Append(acc, Pair(k.val, v.val))
    IN  IF s[j] = "," THEN ParsePairs(s, SkipWhitespace(s, j + 1), got)
        ELSE [val |-> got, next |-> j + 1]

\* json.loads(s)
Loads(s) == ParseValue(s, SkipWhitespace(s, 1)).val

\* the keys of a parsed object, in order
KeysOf(obj) == [k \in 1..Len(obj.items) |-> obj.items[k].key]

\* obj[key]
ValueOf(obj, key) ==
    obj.items[CHOOSE k \in 1..Len(obj.items) : obj.items[k].key = key].value

\* C10: parsing the output of save_annotations gives an object whose text is
\* the input text and whose annotations array has the length, the insertion
\* order (not the start order, and not an order an earlier render left) and
\* the start_pos, end_pos, label and text_fragment values of the set as it
\* was given; serializing the parsed object again gives the same string.
C10_SaveRoundTrip ==
    (pc = "saved") =>
        LET parsed == Loads(result)
            array  == ValueOf(parsed, KeyAnnotations).items
        IN  /\ KeysOf(parsed) = <<KeyText, KeyAnnotations>>
            /\ ValueOf(parsed, KeyText) = PyStr(text)
            /\ Len(array) = Len(given)
            /\ \A k \in 1..Len(given) :
                  /\ KeysOf(array[k]) =
                        <<KeyStartPos, KeyEndPos, KeyLabel, KeyTextFragment>>
                  /\ ValueOf(array[k], KeyStartPos) = PyInt(given[k].start_pos)
                  /\ ValueOf(array[k], KeyEndPos) = PyInt(given[k].end_pos)
                  /\ ValueOf(array[k], KeyLabel) = PyStr(given[k].label)
                  /\ ValueOf(array[k], KeyTextFragment) =
                        PyStr(given[k].text_fragment)
                  /\ given[k].text_fragment =
                        Segment(given[k].start_pos, given[k].end_pos)
            /\ Dump(parsed, 0) = result

\* C10 witness: two annotations given in descending start order, on a text
\* with characters that are escaped, have been rendered and serialized
C10_Witness ==
    /\ pc = "saved"
    /\ text = <<"a", "\"", "\\">>
    /\ Len(given) = 2
    /\ given[1].start_pos = 2 /\ given[1].end_pos = 3
    /\ given[2].start_pos = 0 /\ given[2].end_pos = 2
    /\ given[2].label = <<"\"", "B", "\\">>
    /\ Len(result) > 0
=============================================================================
